---- MODULE Spec2Model ----
(***************************************************************************)
(* Stall detector of the glommio executor (src/executor/stall.rs).          *)
(*                                                                         *)
(* Two threads share a timerfd and an atomic flag: the monitored           *)
(* (executor) thread, which enters task queues, destroys guards and        *)
(* finally destroys the detector, and the timer thread spawned by          *)
(* StallDetector::new, which waits on the timerfd and signals the          *)
(* monitored thread.  The signal handler installed by the executor runs    *)
(* on the monitored thread between any two of its steps and pushes         *)
(* backtrace frames into the detector's bounded channel.                   *)
(*                                                                         *)
(* Durations are whole microseconds.                                       *)
(***************************************************************************)
EXTENDS Integers, Sequences, FiniteSets, TLC

VARIABLES
    pc,           \* position of the monitored thread
    handler,      \* which StallDetectionHandler the detector was built with
    guard,        \* the live StallDetectorGuard, or NoGuard
    elapsed,      \* guard.start.elapsed(): time since the quantum's start
    timer,        \* the timerfd's setting
    expirations,  \* the timerfd's unread expiration count
    expBy,        \* (history) whose deadlines make up expirations: "own" for
                  \* the live guard's, "stale" for a destroyed guard's
    tpc,          \* position of the timer thread
    wakeBy,       \* (history) whose expiry the timer thread woke for
    terminated,   \* the AtomicBool shared with the timer thread
    sigPending,   \* the signal is pending on the monitored thread
    sigBy,        \* (history) whose expiry caused the pending signal
    rx,           \* content of the crossbeam channel (tx -> rx)
    frames,       \* the local vec `frames` of StallDetectorGuard::drop
    nquanta,      \* number of enter_task_queue calls so far
    arms,         \* (history) number of StallDetector::arm calls
    disarms,      \* (history) number of StallDetector::disarm calls
    nreports,     \* number of StallDetectionHandler::stall calls
    lastReport,   \* the StallDetection the guard destroyed last passed to stall
    last,         \* (history) summary of the guard destroyed last
    hwmArg,       \* argument of a stand-alone high_water_mark call
    hwmRet,       \* its result
    faulty,       \* the kernel may fail a timerfd call in this run
    logged        \* kinds of lines written through the `log` crate

vars == <<pc, handler, guard, elapsed, timer, expirations, expBy, tpc, wakeBy,
          terminated, sigPending, sigBy, rx, frames, nquanta, arms, disarms,
          nreports, lastReport, last, hwmArg, hwmRet, faulty, logged>>

hwmVars == <<hwmArg, hwmRet>>

(***************************************************************************)
(* Bounds of the model.                                                    *)
(***************************************************************************)
MaxQuanta == 3        \* quanta the executor schedules before shutting down
TickMillis == 25      \* granularity of the clock, in ms
MaxRunTicks == 4      \* longest quantum, in clock ticks (100ms)
MaxDepth == 1         \* deepest backtrace the signal handler captures
MaxExpirations == 2   \* cap of the unread expiration count
MaxHwmSteps == 400    \* stand-alone high_water_mark inputs: 0 .. 200ms
HwmStepMicros == 500  \* distance of two such inputs, in us
MaxSatSteps == 120    \* expected runtimes near Duration::MAX: this many steps
SatStepMicros == 4000000  \* distance of two such runtimes, in us

(***************************************************************************)
(* Program constants.                                                      *)
(***************************************************************************)
MICROS_PER_MILLI == 1000    \* Duration::from_millis / Duration::as_millis
HWM_PERCENT_DIV == 10       \* "* 0.1"
HWM_FLOOR_MILLIS == 10      \* .max(Duration::from_millis(10))
CHANNEL_CAPACITY == 1024    \* crossbeam::channel::bounded(1 << 10)
WAKE_INTERVAL_MILLIS == 1   \* Expiration::Interval(Duration::from_millis(1))
PREEMPT_TIMER_MILLIS == 50  \* .preempt_timer(Duration::from_millis(50))
SHORT_TIMER_MILLIS == 5     \* "a preempt timer of 5ms"

Tick == TickMillis * MICROS_PER_MILLI
MaxRun == MaxRunTicks * Tick

Min(a, b) == IF a < b THEN a ELSE b
Max(a, b) == IF a > b THEN a ELSE b

(***************************************************************************)
(* std::time::Duration                                                     *)
(***************************************************************************)
from_millis(ms) == ms * MICROS_PER_MILLI
\* as_millis drops the sub-millisecond part
as_millis(d) == d \div MICROS_PER_MILLI
\* Duration::MAX, scaled to the model's integers
DURATION_MAX == 2000000000
\* a slip: `+` in a release build, which wraps
wrapping_add(a, b) ==
    IF a > DURATION_MAX - b THEN a - (DURATION_MAX - b) - 1 ELSE a + b

saturating_add(a, b) == IF a > DURATION_MAX - b THEN DURATION_MAX ELSE a + b
\* a slip: `-` in a release build, which wraps
wrapping_sub(a, b) ==
    IF a >= b THEN a - b ELSE DURATION_MAX - (b - a) + 1

saturating_sub(a, b) == IF a > b THEN a - b ELSE 0

(***************************************************************************)
(* Option<Duration>                                                        *)
(***************************************************************************)
None == [some |-> FALSE, val |-> 0]
Some(v) == [some |-> TRUE, val |-> v]

(***************************************************************************)
(* The detection policy.                                                   *)
(***************************************************************************)
Handlers == {"default", "selective"}
\* the task queues the executor schedules, each with its expected runtime
TaskQueues == {[name |-> "default",
                max_expected_runtime |-> from_millis(PREEMPT_TIMER_MILLIS)],
               [name |-> "other",
                max_expected_runtime |-> from_millis(SHORT_TIMER_MILLIS)]}

\* a slip: rounding the tenth to the nearest millisecond
f64_tenth_rounded(ms) == (ms + HWM_PERCENT_DIV \div 2) \div HWM_PERCENT_DIV

\* `(ms as f64 * 0.1) as u64`: for ms below 2^53 the product lies in
\* [ms/10, ms/10 + 1) and the cast truncates it toward zero
f64_tenth_as_u64(ms) == ms \div HWM_PERCENT_DIV

\* a slip the doc comment invites ("capped at 10ms"): min in place of max
DefaultHighWaterMarkCapped(max_expected_runtime) ==
    Some(Min(from_millis(f64_tenth_as_u64(as_millis(max_expected_runtime))),
             from_millis(HWM_FLOOR_MILLIS)))

\* DefaultStallDetectionHandler::high_water_mark
DefaultHighWaterMark(max_expected_runtime) ==
    Some(Max(from_millis(f64_tenth_as_u64(as_millis(max_expected_runtime))),
             from_millis(HWM_FLOOR_MILLIS)))

\* slack a user-supplied handler grants when it opts in
SelectiveSlack == from_millis(2 * HWM_FLOOR_MILLIS)

\* StallDetectionHandler::high_water_mark: the values the handler h may return.
\* The default handler is a function of the expected runtime; a user-supplied
\* handler is arbitrary code: here one that opts a quantum in or out.
high_water_mark(h, queue_handle, max_expected_runtime) ==
    IF h = "default"
    THEN {DefaultHighWaterMark(max_expected_runtime)}
    ELSE {None, Some(SelectiveSlack)}

(***************************************************************************)
(* The timerfd.                                                            *)
(***************************************************************************)
TimerOff == [mode |-> "off", left |-> 0, by |-> ""]

\* a slip: a deadline still pending is left in place
arm_unless_pending(threshold) ==
    IF timer.mode # "off" THEN timer
    ELSE [mode |-> "oneshot", left |-> threshold, by |-> "own"]

\* StallDetector::arm: a zero it_value disarms, anything else is a one-shot
arm(threshold) ==
    IF threshold = 0 THEN TimerOff
    ELSE [mode |-> "oneshot", left |-> threshold, by |-> "own"]

\* a slip: the disarm is forgotten
keep_armed == timer

\* StallDetector::disarm
disarm == TimerOff

\* the timer set by StallDetector::drop
wake_interval == [mode |-> "interval",
                  left |-> from_millis(WAKE_INTERVAL_MILLIS),
                  by |-> "shutdown"]

\* the results a timerfd call (timerfd_create, timerfd_settime) may have
OsResults == IF faulty THEN {"ok", "err"} ELSE {"ok"}

NoGuard == [id |-> 0, queue_name |-> "", threshold |-> 0, expected |-> 0,
            ret |-> 0, disarm_err |-> FALSE, superseded |-> FALSE]
NoReport == [executor |-> 0, queue_name |-> "", trace |-> 0, budget |-> 0,
             overage |-> 0]
NoLast == [id |-> 0, queue_name |-> "", threshold |-> 0, expected |-> 0,
           ret |-> 0, own |-> FALSE, prior |-> 0]
NotCalled == [some |-> FALSE, val |-> -1]

MainInit ==
    /\ pc = "sched"
    /\ handler \in Handlers
    /\ guard = NoGuard
    /\ elapsed = 0
    /\ timer = TimerOff
    /\ expirations = 0
    /\ expBy = {}
    /\ tpc = "wait"
    /\ wakeBy = {}
    /\ terminated = FALSE
    /\ sigPending = FALSE
    /\ sigBy = {}
    /\ rx = <<>>
    /\ frames = <<>>
    /\ nquanta = 0
    /\ arms = 0
    /\ disarms = 0
    /\ nreports = 0
    /\ lastReport = NoReport
    /\ last = NoLast
    /\ logged = {}

\* the state StallDetector::new returns
Init ==
    /\ MainInit
    /\ hwmArg = 0
    /\ hwmRet = NotCalled
    /\ faulty = FALSE


(***************************************************************************)
(* The monitored thread: entering a task queue.                            *)
(***************************************************************************)
EXECUTOR_ID == 1

\* a slip: the timer is armed before the policy's answer is looked at
NotMonitored_Arms(id) ==
    /\ guard' = NoGuard
    /\ pc' = "run"
    /\ timer' = arm(from_millis(PREEMPT_TIMER_MILLIS))
    /\ arms' = arms + 1
    /\ UNCHANGED <<expirations, expBy, elapsed, last, lastReport>>

\* high_water_mark returned None: `.map` does not run its closure
NotMonitored(id) ==
    /\ guard' = NoGuard
    /\ pc' = "run"
    /\ UNCHANGED <<timer, expirations, expBy, arms, elapsed, last, lastReport>>

\* `.expect("Unable to arm stall detector, giving up")` on an Err: the
\* monitored thread panics inside enter_task_queue
ArmFailed ==
    /\ pc' = "panic_arm"
    /\ guard' = NoGuard
    /\ UNCHANGED <<timer, expirations, expBy, elapsed, last, lastReport>>

\* the guard StallDetectorGuard::new returns; (history) superseded: its arm
\* found a deadline pending or an expiry unread
NewGuard(id, queue_name, max_expected_runtime, threshold) ==
    /\ elapsed' = 0
    /\ guard' = [id |-> id, queue_name |-> queue_name, threshold |-> threshold,
                 expected |-> max_expected_runtime, ret |-> 0,
                 disarm_err |-> FALSE,
                 superseded |-> timer.mode # "off" \/ expirations > 0]
    /\ last' = NoLast
    /\ lastReport' = NoReport
    /\ pc' = "run"

\* a slip: the result of arm dropped (`let _ =`) and the guard built anyway
StallDetectorGuard_new_Unarmed(id, queue_name, max_expected_runtime, threshold) ==
    \E res \in OsResults :
        /\ arms' = arms + 1
        /\ IF res = "ok"
           THEN timer' = arm(threshold) /\ expirations' = 0 /\ expBy' = {}
           ELSE UNCHANGED <<timer, expirations, expBy>>
        /\ NewGuard(id, queue_name, max_expected_runtime, threshold)

\* StallDetectorGuard::new: arm the timer, then build the guard.  Setting a
\* timerfd clears its unread expiration count; a failed set changes nothing.
StallDetectorGuard_new(id, queue_name, max_expected_runtime, threshold) ==
    \E res \in OsResults :
        /\ arms' = arms + 1
        /\ IF res = "ok"
           THEN /\ timer' = arm(threshold)
                /\ expirations' = 0
                /\ expBy' = {}
                /\ NewGuard(id, queue_name, max_expected_runtime, threshold)
           ELSE ArmFailed

\* StallDetector::enter_task_queue; `start` is the caller's Instant::now()
enter_task_queue(queue_name, max_expected_runtime) ==
    /\ pc = "sched"
    /\ nquanta < MaxQuanta
    /\ \E hwm \in high_water_mark(handler, queue_name, max_expected_runtime) :
          IF hwm.some
          THEN StallDetectorGuard_new(nquanta + 1, queue_name,
                   max_expected_runtime,
                   saturating_add(max_expected_runtime, hwm.val))
          ELSE NotMonitored(nquanta + 1)
    /\ nquanta' = nquanta + 1
    /\ UNCHANGED <<handler, tpc, wakeBy, terminated, sigPending, sigBy, rx,
                   frames, disarms, nreports, hwmVars,
                   faulty, logged>>

EnterTaskQueue ==
    \E q \in TaskQueues : enter_task_queue(q.name, q.max_expected_runtime)

\* a quantum that runs without a guard yields or finishes
LeaveUnmonitored ==
    /\ pc = "run"
    /\ guard = NoGuard
    /\ pc' = "sched"
    /\ UNCHANGED <<handler, guard, elapsed, timer, expirations, expBy, tpc,
                   wakeBy, terminated, sigPending, sigBy, rx, frames, nquanta,
                   arms, disarms, nreports, lastReport, last, hwmVars,
                   faulty, logged>>

(***************************************************************************)
(* The monitored thread: StallDetectorGuard::drop, in three steps between  *)
(* which the signal handler and the timer thread may run.                  *)
(***************************************************************************)
\* `let _ = self.detector.disarm();` when the quantum yields or finishes
GuardDropDisarm ==
    /\ pc = "run"
    /\ guard # NoGuard
    /\ \E res \in OsResults :
          /\ timer' = IF res = "ok" THEN disarm ELSE timer
          /\ expirations' = IF res = "ok" THEN 0 ELSE expirations
          /\ expBy' = IF res = "ok" THEN {} ELSE expBy
          /\ guard' = [guard EXCEPT !.ret = elapsed,
                                    !.disarm_err = (res = "err")]
    /\ disarms' = disarms + 1
    /\ pc' = "drain"
    /\ UNCHANGED <<handler, elapsed, tpc, wakeBy, terminated, sigPending,
                   sigBy, rx, frames, nquanta, arms, nreports, lastReport,
                   last, hwmVars,
                   faulty, logged>>

\* (history) what the guard being destroyed saw: the elapsed time at which its
\* quantum returned, whether it drained a frame pushed while it lived, and
\* the number of reports made before its own
Summary(drained) ==
    [id |-> guard.id, queue_name |-> guard.queue_name,
     threshold |-> guard.threshold, expected |-> guard.expected,
     ret |-> guard.ret,
     own |-> \E i \in 1..Len(drained) : drained[i].during = "own",
     prior |-> nreports]

\* the try_recv loop and the early return on an empty trace
\* (history) the guard is gone: what its deadline still has in flight, and
\* what was pushed while it lived, is stale from now on
Aged(by) == IF by = {} THEN {} ELSE {"stale"}

AgedTimer(t) == IF t.mode = "off" THEN t ELSE [t EXCEPT !.by = "stale"]

AgedFrames(chan) ==
    [i \in 1..Len(chan) |-> [by |-> {"stale"}, during |-> "stale"]]

GuardGone ==
    /\ guard' = NoGuard
    /\ elapsed' = 0
    /\ timer' = AgedTimer(timer)
    /\ expBy' = Aged(expBy)
    /\ wakeBy' = Aged(wakeBy)
    /\ sigBy' = Aged(sigBy)
    /\ pc' = "sched"

\* a slip: the emptiness test inverted
GuardDropDrain_Inverted ==
    /\ pc = "drain"
    /\ IF rx # <<>>
       THEN /\ GuardGone
            /\ rx' = <<>>
            /\ frames' = <<>>
            /\ last' = Summary(rx)
       ELSE /\ pc' = "report"
            /\ rx' = <<>>
            /\ frames' = rx
            /\ UNCHANGED <<guard, elapsed, timer, last, expBy, wakeBy, sigBy>>
    /\ UNCHANGED <<handler, expirations, tpc, terminated,
                   sigPending, nquanta, arms, disarms, nreports,
                   lastReport, hwmVars,
                   faulty, logged>>

\* a slip: `if let` in place of `while let`, one frame received
GuardDropDrain_One ==
    /\ pc = "drain"
    /\ IF rx = <<>>
       THEN /\ GuardGone
            /\ rx' = <<>>
            /\ frames' = <<>>
            /\ last' = Summary(<<>>)
       ELSE /\ pc' = "report"
            /\ rx' = Tail(rx)
            /\ frames' = <<Head(rx)>>
            /\ UNCHANGED <<guard, elapsed, timer, last, expBy, wakeBy, sigBy>>
    /\ UNCHANGED <<handler, expirations, tpc, terminated,
                   sigPending, nquanta, arms, disarms, nreports,
                   lastReport, hwmVars,
                   faulty, logged>>

GuardDropDrain ==
    /\ pc = "drain"
    /\ IF rx = <<>>
       THEN /\ GuardGone
            /\ rx' = <<>>
            /\ frames' = <<>>
            /\ last' = Summary(<<>>)
       ELSE /\ pc' = "report"
            /\ rx' = <<>>
            /\ frames' = rx
            /\ UNCHANGED <<guard, elapsed, timer, last, expBy, wakeBy, sigBy>>
    /\ UNCHANGED <<handler, expirations, tpc, terminated,
                   sigPending, nquanta, arms, disarms, nreports,
                   lastReport, hwmVars,
                   faulty, logged>>

\* a slip: a handler that reports the first stall only
stall_once(detection) ==
    IF nreports = 0
    THEN /\ nreports' = nreports + 1
         /\ lastReport' = detection
         /\ logged' = IF handler = "default" THEN logged \cup {"stall"}
                      ELSE logged
    ELSE UNCHANGED <<nreports, lastReport, logged>>

\* StallDetectionHandler::stall; the default handler's is
\* `log::warn!("{}", detection)`, the only line this module logs
stall(detection) ==
    /\ nreports' = nreports + 1
    /\ lastReport' = detection
    /\ logged' = IF handler = "default" THEN logged \cup {"stall"} ELSE logged

\* `self.start.elapsed()` and the call of the handler's stall
GuardDropReport ==
    /\ pc = "report"
    /\ stall([executor |-> EXECUTOR_ID,
              queue_name |-> guard.queue_name,
              trace |-> Len(frames),
              budget |-> guard.threshold,
              overage |-> saturating_sub(elapsed, guard.threshold)])
    /\ last' = Summary(frames)
    /\ frames' = <<>>
    /\ rx' = AgedFrames(rx)
    /\ GuardGone
    /\ UNCHANGED <<handler, expirations, tpc, terminated,
                   sigPending, nquanta, arms, disarms, hwmVars, faulty>>

(***************************************************************************)
(* The monitored thread: StallDetector::drop.                              *)
(***************************************************************************)
\* `self.terminated.store(true, Ordering::Relaxed)`; a guard borrows the
\* detector, so none is alive
DetectorDropStore ==
    /\ pc = "sched"
    /\ terminated' = TRUE
    /\ pc' = "d_wake"
    /\ UNCHANGED <<handler, guard, elapsed, timer, expirations, expBy, tpc,
                   wakeBy, sigPending, sigBy, rx, frames, nquanta, arms,
                   disarms, nreports, lastReport, last, hwmVars,
                   faulty, logged>>

\* a slip: the wake of the timer left out
DetectorDropWake_NoSet ==
    /\ pc = "d_wake"
    /\ pc' = "d_join"
    /\ UNCHANGED <<handler, guard, elapsed, timer, expirations, expBy, tpc,
                   wakeBy, terminated, sigPending, sigBy, rx, frames, nquanta,
                   arms, disarms, nreports, lastReport, last, hwmVars,
                   faulty, logged>>

\* `self.timer.set(Expiration::Interval(1ms), ..)`
\* and `.expect("failed wake the timer for termination")` on an Err: the
\* monitored thread panics before the join
DetectorDropWake ==
    /\ pc = "d_wake"
    /\ \E res \in OsResults :
          IF res = "ok"
          THEN /\ timer' = wake_interval
               /\ expirations' = 0
               /\ expBy' = {}
               /\ pc' = "d_join"
          ELSE /\ pc' = "panic_wake"
               /\ UNCHANGED <<timer, expirations, expBy>>
    /\ UNCHANGED <<handler, guard, elapsed, tpc, wakeBy, terminated,
                   sigPending, sigBy, rx, frames, nquanta, arms, disarms,
                   nreports, lastReport, last, hwmVars,
                   faulty, logged>>

\* `timer_handler.join()`
DetectorDropJoin ==
    /\ pc = "d_join"
    /\ tpc = "exited"
    /\ pc' = "dropped"
    /\ UNCHANGED <<handler, guard, elapsed, timer, expirations, expBy, tpc,
                   wakeBy, terminated, sigPending, sigBy, rx, frames, nquanta,
                   arms, disarms, nreports, lastReport, last, hwmVars,
                   faulty, logged>>

(***************************************************************************)
(* The timer thread.                                                       *)
(***************************************************************************)
\* `timer.wait()`: a read of the timerfd, which blocks while the expiration
\* count is zero and clears it
TimerThreadWait ==
    /\ tpc = "wait"
    /\ expirations > 0
    /\ expirations' = 0
    /\ wakeBy' = expBy
    /\ expBy' = {}
    /\ tpc' = "check"
    /\ UNCHANGED <<pc, handler, guard, elapsed, timer, terminated, sigPending,
                   sigBy, rx, frames, nquanta, arms, disarms, nreports,
                   lastReport, last, hwmVars,
                   faulty, logged>>

\* `if terminated.load(Ordering::Relaxed) { return }`
TimerThreadCheck ==
    /\ tpc = "check"
    /\ IF terminated
       THEN tpc' = "exited" /\ wakeBy' = {}
       ELSE tpc' = "kill" /\ UNCHANGED wakeBy
    /\ UNCHANGED <<pc, handler, guard, elapsed, timer, expirations, expBy,
                   terminated, sigPending, sigBy, rx, frames, nquanta, arms,
                   disarms, nreports, lastReport, last, hwmVars,
                   faulty, logged>>

\* a slip: the timer thread reports the stall itself when it wakes
TimerThreadKill_Reports ==
    /\ tpc = "kill"
    /\ sigPending' = TRUE
    /\ sigBy' = sigBy \cup wakeBy
    /\ wakeBy' = {}
    /\ tpc' = "wait"
    /\ nreports' = nreports + 1
    /\ UNCHANGED <<pc, handler, guard, elapsed, timer, expirations, expBy,
                   terminated, rx, frames, nquanta, arms, disarms,
                   lastReport, last, hwmVars,
                   faulty, logged>>

\* `pthread_kill(tid, sig)`: a standard signal is pending at most once
TimerThreadKill ==
    /\ tpc = "kill"
    /\ sigPending' = TRUE
    /\ sigBy' = sigBy \cup wakeBy
    /\ wakeBy' = {}
    /\ tpc' = "wait"
    /\ UNCHANGED <<pc, handler, guard, elapsed, timer, expirations, expBy,
                   terminated, rx, frames, nquanta, arms, disarms, nreports,
                   lastReport, last, hwmVars,
                   faulty, logged>>

(***************************************************************************)
(* The signal handler of the executor, on the monitored thread: it walks   *)
(* the stack and try_sends each frame, stopping when the channel is full.  *)
(***************************************************************************)
Frame == [by |-> sigBy,
          during |-> IF guard # NoGuard THEN "own" ELSE "stale"]

Backtrace(depth) == [i \in 1..depth |-> Frame]

try_send_all(chan, trace) ==
    SubSeq(chan \o trace, 1, Min(Len(chan) + Len(trace), CHANNEL_CAPACITY))

SignalHandler ==
    /\ sigPending
    /\ pc # "dropped"
    /\ \E depth \in 1..MaxDepth : rx' = try_send_all(rx, Backtrace(depth))
    /\ sigPending' = FALSE
    /\ sigBy' = {}
    /\ UNCHANGED <<pc, handler, guard, elapsed, timer, expirations, expBy, tpc,
                   wakeBy, terminated, frames, nquanta, arms, disarms,
                   nreports, lastReport, last, hwmVars,
                   faulty, logged>>

(***************************************************************************)
(* The clock.  Time is observed every Tick; a one-shot timer whose         *)
(* remaining time has passed expires once and is then disarmed, an         *)
(* interval timer expires once per period and stays armed.                 *)
(***************************************************************************)
Expiries(t) ==
    IF t.mode = "oneshot" /\ t.left <= Tick THEN 1
    ELSE IF t.mode = "interval" /\ t.left <= Tick
         THEN (Tick - t.left) \div from_millis(WAKE_INTERVAL_MILLIS) + 1
         ELSE 0

AfterTick(t) ==
    IF t.mode = "oneshot"
    THEN IF t.left <= Tick THEN TimerOff ELSE [t EXCEPT !.left = t.left - Tick]
    ELSE IF t.mode = "interval"
         THEN IF t.left <= Tick
              THEN [t EXCEPT !.left = from_millis(WAKE_INTERVAL_MILLIS)
                        - ((Tick - t.left) % from_millis(WAKE_INTERVAL_MILLIS))]
              ELSE [t EXCEPT !.left = t.left - Tick]
         ELSE t

ClockTick ==
    /\ pc # "dropped"
    /\ guard # NoGuard => elapsed < MaxRun
    /\ \/ guard # NoGuard
       \/ timer.mode = "oneshot"
       \/ timer.mode = "interval" /\ expirations < MaxExpirations
    /\ elapsed' = IF guard # NoGuard THEN elapsed + Tick ELSE elapsed
    /\ timer' = AfterTick(timer)
    /\ expirations' = Min(expirations + Expiries(timer), MaxExpirations)
    /\ expBy' = IF Expiries(timer) > 0 THEN expBy \cup {timer.by} ELSE expBy
    /\ UNCHANGED <<pc, handler, guard, tpc, wakeBy, terminated, sigPending,
                   sigBy, rx, frames, nquanta, arms, disarms, nreports,
                   lastReport, last, hwmVars,
                   faulty, logged>>

Next ==
    \/ EnterTaskQueue
    \/ LeaveUnmonitored
    \/ GuardDropDisarm
    \/ GuardDropDrain
    \/ GuardDropReport
    \/ DetectorDropStore
    \/ DetectorDropWake
    \/ DetectorDropJoin
    \/ TimerThreadWait
    \/ TimerThreadCheck
    \/ TimerThreadKill
    \/ SignalHandler
    \/ ClockTick

Spec == Init /\ [][Next]_vars


(***************************************************************************)
(* The timer thread is scheduled, the clock advances, and the monitored    *)
(* thread runs StallDetector::drop to its end once it has begun.           *)
(***************************************************************************)
TimerThread == TimerThreadWait \/ TimerThreadCheck \/ TimerThreadKill

LiveSpec ==
    /\ Init
    /\ [][Next]_vars
    /\ WF_vars(TimerThread)
    /\ WF_vars(ClockTick)
    /\ WF_vars(DetectorDropWake \/ DetectorDropJoin)

(***************************************************************************)
(* Runs in which the kernel may fail a timerfd call, from before           *)
(* StallDetector::new on.                                                  *)
(***************************************************************************)
FaultInit ==
    /\ pc = "new"
    /\ handler \in Handlers
    /\ guard = NoGuard
    /\ elapsed = 0
    /\ timer = TimerOff
    /\ expirations = 0
    /\ expBy = {}
    /\ tpc = "none"
    /\ wakeBy = {}
    /\ terminated = FALSE
    /\ sigPending = FALSE
    /\ sigBy = {}
    /\ rx = <<>>
    /\ frames = <<>>
    /\ nquanta = 0
    /\ arms = 0
    /\ disarms = 0
    /\ nreports = 0
    /\ lastReport = NoReport
    /\ last = NoLast
    /\ logged = {}
    /\ hwmArg = 0
    /\ hwmRet = NotCalled
    /\ faulty = TRUE

\* a slip: the thread spawned before the result of TimerFd::new is looked at
StallDetector_new_SpawnFirst ==
    /\ pc = "new"
    /\ tpc' = "wait"
    /\ \E res \in OsResults :
          pc' = IF res = "ok" THEN "sched" ELSE "new_failed"
    /\ UNCHANGED <<handler, guard, elapsed, timer, expirations, expBy, wakeBy,
                   terminated, sigPending, sigBy, rx, frames, nquanta, arms,
                   disarms, nreports, lastReport, last, hwmVars, faulty,
                   logged>>

\* StallDetector::new: `TimerFd::new(..).map_err(..)?` returns the error
\* before the thread is spawned and the channel made
StallDetector_new ==
    /\ pc = "new"
    /\ \E res \in OsResults :
          IF res = "ok"
          THEN pc' = "sched" /\ tpc' = "wait"
          ELSE pc' = "new_failed" /\ UNCHANGED tpc
    /\ UNCHANGED <<handler, guard, elapsed, timer, expirations, expBy, wakeBy,
                   terminated, sigPending, sigBy, rx, frames, nquanta, arms,
                   disarms, nreports, lastReport, last, hwmVars, faulty,
                   logged>>

FaultNext ==
    \/ StallDetector_new
    \/ Next

FaultSpec == FaultInit /\ [][FaultNext]_vars

(***************************************************************************)
(* DefaultStallDetectionHandler::high_water_mark on its own.               *)
(***************************************************************************)
HwmInputs == {k * HwmStepMicros : k \in 0..MaxHwmSteps}

HwmInit ==
    /\ MainInit
    /\ hwmArg \in HwmInputs
    /\ hwmRet = NotCalled
    /\ faulty = FALSE

CallHighWaterMark ==
    /\ hwmRet = NotCalled
    /\ hwmRet' = DefaultHighWaterMark(hwmArg)
    /\ UNCHANGED <<pc, handler, guard, elapsed, timer, expirations, expBy, tpc,
                   wakeBy, terminated, sigPending, sigBy, rx, frames, nquanta,
                   arms, disarms, nreports, lastReport, last, hwmArg, faulty,
                   logged>>

HwmNext == CallHighWaterMark

HwmSpec == HwmInit /\ [][HwmNext]_vars

(***************************************************************************)
(* enter_task_queue for expected runtimes up to Duration::MAX.             *)
(***************************************************************************)
SatInputs == {DURATION_MAX - k * SatStepMicros : k \in 0..MaxSatSteps}

SatInit ==
    /\ MainInit
    /\ hwmArg \in SatInputs
    /\ hwmRet = NotCalled
    /\ faulty = FALSE

EnterLongQueue == enter_task_queue("long", hwmArg)

SatNext == EnterLongQueue

SatSpec == SatInit /\ [][SatNext]_vars


(***************************************************************************)
(* Properties.                                                             *)
(***************************************************************************)
\* a guard has been destroyed and no other created since
Destroyed == last.id # 0
\* reports made by the guard destroyed last
Reported == nreports - last.prior
Stalled == Destroyed /\ last.ret > last.threshold

\* C1, as stated: a quantum that returns strictly past its threshold gets
\* exactly one report at its guard's destruction, whatever the interleaving.
C1_StalledAlwaysReported == Stalled => Reported = 1

\* C1, amended: a guard makes at most one report, and a quantum that returns
\* strictly past its threshold gets exactly one, naming its queue and with a
\* non-empty trace, whenever the signal handler pushed a frame between the
\* guard's arming and its drain.
C1_StalledReportedOnceWhenHandled ==
    /\ nreports <= disarms
    /\ Destroyed => Reported \in {0, 1}
    /\ Stalled /\ last.own =>
          /\ Reported = 1
          /\ lastReport.queue_name = last.queue_name
          /\ lastReport.trace > 0

C1_Witness == Stalled /\ last.own /\ Reported = 1

\* C2, as stated: a quantum that returns below its threshold gets no report
\* at its guard's destruction.
C2_NoReportWithinBudget ==
    Destroyed /\ last.ret < last.threshold => Reported = 0

\* C3, as stated: every frame a guard drains was pushed while that guard
\* lived, on a signal sent for that guard's own deadline.
C3_DrainedFramesAreOwn ==
    pc = "report" =>
        \A i \in 1..Len(frames) :
            frames[i].during = "own" /\ frames[i].by = {"own"}

DefaultAt50(g) ==
    handler = "default" /\ g.id # 0
        /\ g.expected = from_millis(PREEMPT_TIMER_MILLIS)

BudgetIs(ms) ==
    /\ DefaultAt50(guard) =>
          /\ guard.threshold = from_millis(ms)
          /\ pc = "run" /\ elapsed = 0 =>
                timer = [mode |-> "oneshot", left |-> from_millis(ms),
                         by |-> "own"]
    /\ DefaultAt50(last) /\ Reported = 1 =>
          lastReport.budget = from_millis(ms)

C6_ReportOnlyAtDestruction ==
    [][nreports' # nreports \/ lastReport' \notin {lastReport, NoReport}
          => pc = "report" /\ pc' = "sched"]_vars

\* the timer has fired and frames are in the channel, the quantum still runs
\* and nothing has been reported
C6_Witness ==
    /\ pc = "run"
    /\ guard # NoGuard
    /\ elapsed > guard.threshold
    /\ Len(rx) > 0
    /\ nreports = 0

\* C7, as stated: after an earlier report, a later quantum that returns
\* strictly past its threshold is reported too.
C7_LaterStallAlwaysReported ==
    Stalled /\ last.prior >= 1 => Reported = 1

\* C7, amended: after an earlier report, a later quantum that returns
\* strictly past its threshold gets its own report, with its own budget,
\* whenever the signal handler pushed a frame between its guard's arming and
\* its drain; the earlier report does not suppress it.
C7_LaterStallReportedWhenHandled ==
    Stalled /\ last.prior >= 1 /\ last.own =>
        /\ nreports = last.prior + 1
        /\ lastReport # NoReport
        /\ lastReport.budget = last.threshold

C7_Witness ==
    /\ Stalled
    /\ last.own
    /\ last.prior >= 1
    /\ last.id >= 3
    /\ nreports = last.prior + 1

\* C8: when high_water_mark returns None, enter_task_queue returns no guard
\* and neither arms nor disarms the timer nor touches the channel, and no
\* report is made, no timer call placed and nothing drained while that
\* quantum runs and when it ends.
C8_NoneHasNoEffect ==
    /\ [][pc = "sched" /\ pc' = "run" /\ guard' = NoGuard =>
             UNCHANGED <<timer, expirations, rx, frames, arms, disarms,
                         nreports, lastReport, tpc, terminated>>]_vars
    /\ [][pc = "run" /\ guard = NoGuard =>
             /\ UNCHANGED <<arms, disarms, nreports, lastReport, frames>>
             /\ Len(rx') >= Len(rx)
             /\ pc' \in {"run", "sched"}
             /\ guard' = NoGuard]_vars

\* an unmonitored quantum runs with frames waiting in the channel
C8_Witness ==
    /\ pc = "run"
    /\ guard = NoGuard
    /\ Len(rx) > 0

\* C9: once StallDetector::drop has set the flag, the timer thread exits and
\* the join returns.
C9_ShutdownCompletes == terminated ~> (pc = "dropped" /\ tpc = "exited")

\* a detector on which no quantum ever ran has been destroyed
C9_Witness ==
    /\ pc = "dropped"
    /\ tpc = "exited"
    /\ nquanta = 0

C11_ArmFailureIsFatal ==
    /\ [][arms' = arms + 1 =>
             \/ /\ pc' = "run"
                /\ guard' # NoGuard
                /\ timer' = arm(guard'.threshold)
             \/ /\ pc' = "panic_arm"
                /\ guard' = NoGuard
                /\ timer' = timer]_vars
    /\ [][pc = "panic_arm" =>
             /\ pc' = "panic_arm"
             /\ UNCHANGED <<guard, nquanta, arms, disarms, nreports>>]_vars
    /\ [](pc = "run" /\ guard = NoGuard => arms = disarms)

\* the arm of a second quantum failed after a first one was monitored
C11_Witness ==
    /\ pc = "panic_arm"
    /\ guard = NoGuard
    /\ arms = disarms + 1
    /\ nquanta = 2

\* C12: when the timerfd cannot be created, StallDetector::new returns the
\* error and leaves nothing behind: no timer thread was spawned, there is no
\* timer, channel or detector on which anything could happen, and nothing
\* happens afterwards.
C12_CreateFailureLeavesNothing ==
    /\ [](pc = "new_failed" =>
             /\ tpc = "none"
             /\ timer = TimerOff /\ expirations = 0
             /\ rx = <<>> /\ ~sigPending
             /\ guard = NoGuard /\ nquanta = 0 /\ arms = 0
             /\ ~terminated)
    /\ [][pc # "new_failed"]_vars
    /\ [][tpc = "none" /\ tpc' # "none" => pc = "new" /\ pc' = "sched"]_vars

\* StallDetector::new has returned the error
C12_Witness ==
    /\ pc = "new_failed"
    /\ tpc = "none"

\* C13, as stated: when the disarm fails in the guard's drop, the failure
\* has been logged by the time the guard is gone and does not stop the drop:
\* the channel is still drained, and the report still made when frames were
\* drained.
C13_DisarmFailureLogged ==
    /\ [][guard.disarm_err /\ guard' = NoGuard =>
             "disarm failed" \in logged']_vars
    /\ [][guard.disarm_err /\ pc = "drain" /\ pc' # "drain" =>
             /\ rx' = <<>>
             /\ pc' = IF rx = <<>> THEN "sched" ELSE "report"]_vars
    /\ [][guard.disarm_err /\ pc = "report" /\ pc' # "report" =>
             nreports' = nreports + 1 /\ pc' = "sched"]_vars
    /\ [](guard.disarm_err => pc \in {"drain", "report"})

\* C14: a guard is armed once, when it is made, and ends at its destruction
\* in one of two ways: if the channel holds frames when it is drained, the
\* frames are taken and stall is called exactly once; if the channel is
\* empty, the drop returns with no report.  Either way the channel is empty
\* right after the drain, and a guard is neither armed again nor replaced
\* while it lives, nor used again once gone.
C14_OneTransitionPerGuard ==
    /\ [][pc = "drain" /\ pc' # "drain" =>
             /\ rx' = <<>>
             /\ UNCHANGED <<nreports, lastReport, logged>>
             /\ IF rx = <<>>
                THEN pc' = "sched" /\ guard' = NoGuard /\ frames' = <<>>
                ELSE pc' = "report" /\ guard' = guard /\ frames' = rx]_vars
    /\ [][pc = "report" /\ pc' # "report" =>
             /\ nreports' = nreports + 1
             /\ lastReport'.trace = Len(frames)
             /\ pc' = "sched" /\ guard' = NoGuard]_vars
    /\ [][guard # NoGuard =>
             arms' = arms /\ guard'.id \in {guard.id, 0}]_vars
    /\ [][guard = NoGuard /\ guard' # NoGuard =>
             /\ guard'.id = nquanta + 1
             /\ nquanta' = nquanta + 1
             /\ arms' = arms + 1]_vars
    /\ [](/\ pc = "report" => frames # <<>> /\ guard # NoGuard
          /\ pc = "drain" => guard # NoGuard
          /\ Destroyed => Reported \in {0, 1}
          /\ guard.id <= nquanta /\ disarms <= arms /\ arms <= nquanta)

\* a second guard has ended with a report and left the channel empty
C14_Witness ==
    /\ pc = "sched"
    /\ Destroyed
    /\ last.id = 2
    /\ Reported = 1
    /\ lastReport.trace >= 1
    /\ rx = <<>>

\* C15: the timerfd holds one deadline: a successful arm, by a guard or by
\* StallDetector::drop, puts its deadline in the place of any still pending
\* and clears the unread expiration count; a one-shot deadline expires once,
\* so an armed one-shot timer has no unread expiry, a wake of the timer
\* thread leaves none behind and is followed by no other before the next arm
\* (the thread exits on its first wake for the interval of the shutdown),
\* and nothing of an earlier guard's deadline is pending in the timer while a
\* later guard's quantum runs.
C15_OneDeadline ==
    /\ [][arms' = arms + 1 /\ pc' = "run" =>
             /\ timer' = [mode |-> "oneshot", left |-> guard'.threshold,
                          by |-> "own"]
             /\ expirations' = 0 /\ expBy' = {}]_vars
    /\ [][pc = "d_wake" /\ pc' = "d_join" =>
             /\ timer'.mode = "interval" /\ timer'.by = "shutdown"
             /\ expirations' = 0 /\ expBy' = {}]_vars
    /\ [][tpc = "wait" /\ tpc' = "check" =>
             /\ expirations' = 0
             /\ timer.mode \in {"off", "interval"}]_vars
    /\ [][tpc = "check" /\ "shutdown" \in wakeBy =>
             tpc' \in {"check", "exited"}]_vars
    /\ [](/\ timer.mode = "oneshot" => expirations = 0
          /\ timer.mode = "off" => expirations <= 1
          /\ pc = "run" /\ guard # NoGuard =>
                timer.by \in {"", "own"} /\ expBy \subseteq {"own"})

\* a guard whose arm replaced the deadline an earlier guard could not disarm
C15_Witness ==
    /\ pc = "run"
    /\ guard.superseded
    /\ elapsed = 0
    /\ timer.mode = "oneshot"
    /\ timer.by = "own"
    /\ expirations = 0

\* the slack the policy grants the quantum entered with expected runtime R
SlackFor(R) ==
    IF handler = "default" THEN DefaultHighWaterMark(R).val ELSE SelectiveSlack

\* C16: the threshold enter_task_queue arms the timer with and stores in the
\* guard is the expected runtime plus the high water mark when that sum is
\* at most Duration::MAX, and Duration::MAX otherwise; it is never smaller
\* than either term.
C16_ThresholdSaturates ==
    guard # NoGuard =>
        /\ guard.expected = hwmArg
        /\ IF SlackFor(hwmArg) <= DURATION_MAX - hwmArg
           THEN guard.threshold - hwmArg = SlackFor(hwmArg)
           ELSE guard.threshold = DURATION_MAX
        /\ guard.threshold >= hwmArg
        /\ guard.threshold >= SlackFor(hwmArg)
        /\ timer = [mode |-> "oneshot", left |-> guard.threshold, by |-> "own"]

\* a sum past Duration::MAX of an expected runtime below it
C16_Witness ==
    /\ guard # NoGuard
    /\ guard.expected < DURATION_MAX
    /\ SlackFor(guard.expected) > DURATION_MAX - guard.expected
    /\ guard.threshold = DURATION_MAX

\* C17: every call of stall is handed the budget the reporting guard armed
\* the timer with, and as overage the time elapsed since the quantum's start,
\* read when the report is made, minus that budget, or zero when less than
\* the budget has elapsed; the overage is never negative.
C17_ReportBudgetAndOverage ==
    [][nreports' = nreports + 1 =>
          /\ guard # NoGuard
          /\ lastReport'.budget = guard.threshold
          /\ lastReport'.queue_name = guard.queue_name
          /\ lastReport'.overage >= 0
          /\ lastReport'.overage =
                IF elapsed >= guard.threshold
                THEN elapsed - guard.threshold ELSE 0]_vars

\* a report made for a quantum that returned before its deadline: the
\* overage is zero
C17_Witness ==
    /\ Destroyed
    /\ Reported = 1
    /\ last.ret < last.threshold
    /\ lastReport.budget = last.threshold
    /\ lastReport.overage = 0

\* C18, as stated: whenever StallDetector::drop is over, by returning or by
\* unwinding from the failed wake of the timer, the timer thread has exited.
C18_DropEndsWithThreadExited ==
    pc \in {"dropped", "panic_wake"} => tpc = "exited"

\* C19, as stated: the timer thread calls pthread_kill only while a guard is
\* alive (counted here up to the end of the guard's drop), never while the
\* scheduler runs between quanta and never during an unmonitored quantum.
C19_SignalOnlyWhileGuardAlive ==
    [][tpc = "kill" /\ tpc' = "wait" => guard # NoGuard]_vars

\* C20, as stated: the terminated flag never goes back to false, and once it
\* is set the timer thread calls pthread_kill no more.
C20_NoSignalAfterTerminated ==
    /\ [][terminated => terminated']_vars
    /\ [][terminated => ~(tpc = "kill" /\ tpc' = "wait")]_vars

====
